---- MODULE Spec2Model ----
(***************************************************************************)
(* Model of quantumcat/circuit/execute_circuit.py: the four adapters       *)
(* on_qiskit, on_cirq, on_ionq and on_braket.                              *)
(*                                                                         *)
(* Every adapter is a straight-line sequence of calls into an external     *)
(* library.  An adapter is modelled by an operator that computes, from the *)
(* arguments and from what the external engine answers, the sequence of    *)
(* external calls the code makes (in Python evaluation order) and the      *)
(* value it returns when none of them raises.  An action performs one      *)
(* whole adapter call: it runs that sequence up to the call that raises    *)
(* (if any), records the calls made, the value returned or the error       *)
(* propagated, and the effect on the stored IBM account.  The adapters are *)
(* synchronous and blocking: the caller takes the outcome of a call before *)
(* it makes the next one.                                                  *)
(***************************************************************************)
EXTENDS Integers, Sequences, FiniteSets

VARIABLES
    account,   \* the process-wide stored IBM credential (IBMQ account storage)
    before,    \* the stored credential as it was when the most recent call began
    call,      \* the arguments of the most recent adapter call
    log,       \* the external calls the most recent adapter call performed, in order
    ret,       \* what the most recent adapter call handed to its caller
    raw,       \* the histogram the engine delivered to the most recent call
    last_token, \* the token of the most recent on_qiskit call that carried one
    last_saved  \* the token of the most recent on_qiskit call whose save returned

vars == <<account, before, call, log, ret, raw, last_token, last_saved>>

----------------------------------------------------------------------------
(* Bounds of the model *)

MaxReps == 2      \* repetitions range over 0..MaxReps
MaxQubits == 2    \* circuits have 1..MaxQubits qubits
MaxOps == 2       \* operations lists have 0..MaxOps entries

----------------------------------------------------------------------------
(* Values *)

None == "None"

\* quantumcat.utils.constants
DEFAULT_SIMULATOR == "qasm_simulator"
STATEVECTOR_SIMULATOR == "statevector_simulator"

\* a selector that is neither of the two literals, but a simulator Aer knows
OTHER_SIMULATOR == "unitary_simulator"

Selectors == {DEFAULT_SIMULATOR, STATEVECTOR_SIMULATOR, OTHER_SIMULATOR}

Max(a, b) == IF a >= b THEN a ELSE b
Min(a, b) == IF a <= b THEN a ELSE b

Range(s) == {s[i] : i \in DOMAIN s}

\* the circuit objects handed to the adapters; result_types is the list of
\* result types attached to a Braket circuit (none when the circuit arrives)
Circuits == {[qubits |-> q, result_types |-> <<>>] : q \in 1..MaxQubits}

\* the most bits one measurement record can hold: one per qubit of the
\* circuit, or one per measurement key requested
Width == Max(MaxQubits, MaxOps)

\* the engine runs `shots` times and measures w bits each time
Samples(rows, w, shots) ==
    [i \in 1..Min(shots, Len(rows)) |-> SubSeq(rows[i], 1, w)]

\* a histogram: each distinct folded sample with its number of occurrences
HistOf(folded) ==
    [k \in Range(folded) |->
        Cardinality({i \in DOMAIN folded : folded[i] = k})]

\* the engines' own rendering of a sample as a bitstring
Bits(row) == [i \in DOMAIN row |-> IF row[i] THEN 1 ELSE 0]

EmptyHist == [k \in {} |-> 0]

\* values an adapter returns
Mapping(h) == [shape |-> "mapping", val |-> h]
Vector(c) == [shape |-> "vector", val |-> [state_of |-> c.qubits]]
NoValue == [shape |-> "none", val |-> None]

\* one external call: what is called, with what, and whether the library
\* accepts it (ok = FALSE: the library raises on these arguments)
Step(op, arg, ok) == [op |-> op, arg |-> arg, ok |-> ok]

\* the error the external call `op` raises
ErrorOf(op) == op

----------------------------------------------------------------------------
(* on_braket *)

\* Circuit.state_vector(): the circuit with a state-vector result type attached
state_vector(q_circuit) ==
    [q_circuit EXCEPT !.result_types = Append(@, "StateVector")]

\* GateModelTaskResult.measurement_counts of a run with the given shots
measurement_counts(q_circuit, shots, rows) ==
    LET samples == Samples(rows, q_circuit.qubits, shots)
    IN  HistOf([i \in DOMAIN samples |-> Bits(samples[i])])

\* GateModelTaskResult.values: one value per result type of the circuit run
values(circuit) ==
    [i \in DOMAIN circuit.result_types |-> Vector(circuit)]

\* line 112: shots=repetitions
braket_default_shots_zero(repetitions) == 0
braket_default_shots(repetitions) == repetitions

\* line 115: shots=0
braket_statevector_shots_reps(repetitions) == repetitions
braket_statevector_shots(repetitions) == 0

\* line 113: dict(results.measurement_counts), a plain copy
braket_default_value(counts) == Mapping(counts)

on_braket(q_circuit, simulator_name, repetitions, api, rows) ==
    IF simulator_name = DEFAULT_SIMULATOR THEN
        LET shots == braket_default_shots(repetitions)
            counts == measurement_counts(q_circuit, shots, rows)
        IN  [steps |-> << Step("LocalSimulator", <<>>, TRUE),
                          Step("run", <<q_circuit, shots>>, TRUE),
                          Step("result", <<>>, TRUE),
                          Step("measurement_counts", <<>>, TRUE) >>,
             value |-> braket_default_value(counts),
             delivered |-> counts]
    ELSE IF simulator_name = STATEVECTOR_SIMULATOR THEN
        LET circuit == state_vector(q_circuit)
            shots == braket_statevector_shots(repetitions)
        IN  [steps |-> << Step("LocalSimulator", <<>>, TRUE),
                          Step("state_vector", <<q_circuit>>, TRUE),
                          Step("run", <<circuit, shots>>, TRUE),
                          Step("result", <<>>, TRUE),
                          Step("values", <<>>, TRUE) >>,
             value |-> Head(values(circuit)),
             delivered |-> EmptyHist]
    ELSE
        [steps |-> << >>, value |-> NoValue, delivered |-> EmptyHist]

----------------------------------------------------------------------------
(* quantumcat.utils.helper *)

\* the per-qubit operations a circuit was built from
OpSet ==
    {[gate |-> "measure", qubit |-> q] : q \in 0..1}
        \cup {[gate |-> "h", qubit |-> 0]}

SeqsUpTo(S, n) == UNION {[1..m -> S] : m \in 0..n}

OperationLists == SeqsUpTo(OpSet, MaxOps)

IsMeasure(operation) == operation.gate = "measure"

\* helper.measure_qubits_index: the indices of the measured qubits, in order
measure_qubits_index(operations) ==
    LET measured == SelectSeq(operations, IsMeasure)
    IN  [i \in DOMAIN measured |-> measured[i].qubit]

\* helper.bitstring: fold one measurement record into a bitstring
bitstring(vals) == [i \in DOMAIN vals |-> IF vals[i] THEN 1 ELSE 0]

\* key[::-1]
Reversed(key) == [i \in 1..Len(key) |-> key[Len(key) + 1 - i]]

\* helper.cirq_measurment_in_reverse: the histogram with every key reversed
cirq_measurment_in_reverse(histogram) ==
    [k \in {Reversed(r) : r \in DOMAIN histogram} |-> histogram[Reversed(k)]]

----------------------------------------------------------------------------
(* on_cirq and on_ionq *)

\* Result.multi_measurement_histogram(keys=..., fold_func=helper.bitstring):
\* one bit per requested key
multi_measurement_histogram(keys, shots, rows) ==
    LET samples == Samples(rows, Len(keys), shots)
    IN  HistOf([i \in DOMAIN samples |-> bitstring(samples[i])])

\* Result.histogram(key='result', fold_func=helper.bitstring): the bits of
\* the one measurement named 'result', which covers the circuit's qubits
histogram(q_circuit, shots, rows) ==
    LET samples == Samples(rows, q_circuit.qubits, shots)
    IN  HistOf([i \in DOMAIN samples |-> bitstring(samples[i])])

\* lines 77 and 91: len(qubits_index) > 0
joint_requested_more_than_one(qubits_index) == Len(qubits_index) > 1
joint_requested(qubits_index) == Len(qubits_index) > 0

\* lines 78 and 92: the joint histogram is passed through the reversal
joint_result_unreversed(h) == h
joint_result(h) == cirq_measurment_in_reverse(h)

\* lines 81 and 95: the single histogram is passed through the reversal
single_result_unreversed(h) == h
single_result(h) == cirq_measurment_in_reverse(h)

\* lines 76-81 and 90-95: the histogram request and its reversal
histogram_steps(q_circuit, repetitions, operations, rows) ==
    LET qubits_index == measure_qubits_index(operations)
    IN  IF joint_requested(qubits_index) THEN
            LET h == multi_measurement_histogram(qubits_index, repetitions, rows)
            IN  [steps |-> << Step("helper.measure_qubits_index", <<operations>>, TRUE),
                              Step("result.multi_measurement_histogram",
                                   <<qubits_index, "helper.bitstring">>, TRUE),
                              Step("helper.cirq_measurment_in_reverse", <<>>, TRUE) >>,
                 value |-> Mapping(joint_result(h)),
                 delivered |-> h]
        ELSE
            LET h == histogram(q_circuit, repetitions, rows)
            IN  [steps |-> << Step("helper.measure_qubits_index", <<operations>>, TRUE),
                              Step("result.histogram",
                                   <<"result", "helper.bitstring">>, TRUE),
                              Step("helper.cirq_measurment_in_reverse", <<>>, TRUE) >>,
                 value |-> Mapping(single_result(h)),
                 delivered |-> h]

\* line 83: simulator.simulate(q_circuit).final_state_vector, returned as is
cirq_statevector_value(q_circuit) == Vector(q_circuit)

on_cirq(q_circuit, simulator_name, repetitions, api, operations, rows) ==
    IF simulator_name = DEFAULT_SIMULATOR THEN
        LET hs == histogram_steps(q_circuit, repetitions, operations, rows)
        IN  [steps |-> << Step("cirq.Simulator", <<>>, TRUE),
                          Step("run", <<q_circuit, repetitions>>, TRUE) >>
                       \o hs.steps,
             value |-> hs.value,
             delivered |-> hs.delivered]
    ELSE IF simulator_name = STATEVECTOR_SIMULATOR THEN
        [steps |-> << Step("cirq.Simulator", <<>>, TRUE),
                      Step("simulate", <<q_circuit>>, TRUE),
                      Step("final_state_vector", <<>>, TRUE) >>,
         value |-> cirq_statevector_value(q_circuit),
         delivered |-> EmptyHist]
    ELSE
        [steps |-> << Step("cirq.Simulator", <<>>, TRUE) >>,
         value |-> NoValue,
         delivered |-> EmptyHist]

on_ionq(q_circuit, repetitions, api, default_target, operations, rows) ==
    LET hs == histogram_steps(q_circuit, repetitions, operations, rows)
    IN  [steps |-> << Step("ionq.Service", <<api, default_target>>, TRUE),
                      Step("run", <<q_circuit, repetitions>>, TRUE) >>
                   \o hs.steps,
         value |-> hs.value,
         delivered |-> hs.delivered]

----------------------------------------------------------------------------
(* on_qiskit *)

\* credentials a caller may pass; IBMQ.save_account rejects the empty token
Tokens == {"tokA", "tokB", ""}
ValidToken(api) == api /= None /\ api /= ""

\* hub, group, project
Routes == { <<"ibm-q", None, None>>, <<"ibm-q", "open", "main">> }

Device(name, simulator, pending_jobs) ==
    [name |-> name, simulator |-> simulator, pending_jobs |-> pending_jobs,
     provider |-> "IBMQ"]

\* the backends the account's provider may offer
Providers ==
    { { Device("ibmq_qasm_simulator", TRUE, 0) },
      { Device("ibmq_qasm_simulator", TRUE, 0),
        Device("ibmq_a", FALSE, 2),
        Device("ibmq_b", FALSE, 1) } }

DeviceNames == {None, "ibmq_a", "ibmq_b"}

NoBackend == [name |-> None, simulator |-> FALSE, pending_jobs |-> 0,
              provider |-> "none"]

\* the simulators Aer.get_backend knows
AerBackends == {DEFAULT_SIMULATOR, STATEVECTOR_SIMULATOR, OTHER_SIMULATOR}

AerBackend(name) ==
    [name |-> name, simulator |-> TRUE, pending_jobs |-> 0, provider |-> "Aer"]

\* provider.backends(simulator=...): the backends with that simulator flag
backends(devices, simulator) == {d \in devices : d.simulator = simulator}

\* qiskit.providers.ibmq.least_busy: a backend with the fewest pending jobs
least_busy(candidates) ==
    IF candidates = {} THEN NoBackend
    ELSE CHOOSE d \in candidates :
            \A e \in candidates : d.pending_jobs <= e.pending_jobs

\* provider.get_backend(name)
get_backend(devices, name) ==
    IF \E d \in devices : d.name = name
    THEN CHOOSE d \in devices : d.name = name
    ELSE NoBackend

\* lines 42, 45-47: the account calls made before a backend is chosen
account_steps_unguarded(api, hub, group, project) ==
    << Step("IBMQ.save_account", <<api, TRUE>>, ValidToken(api)),
       Step("IBMQ.load_account", <<>>, TRUE),
       Step("IBMQ.get_provider", <<hub, group, project>>, TRUE) >>
account_steps_no_save(api, hub, group, project) ==
    IF api = None THEN << >>
    ELSE << Step("IBMQ.load_account", <<>>, TRUE),
            Step("IBMQ.get_provider", <<hub, group, project>>, TRUE) >>
account_steps(api, hub, group, project) ==
    IF api = None THEN << >>
    ELSE << Step("IBMQ.save_account", <<api, TRUE>>, ValidToken(api)),
            Step("IBMQ.load_account", <<>>, TRUE),
            Step("IBMQ.get_provider", <<hub, group, project>>, TRUE) >>

\* lines 42-43, 48-49: the choice of the backend
select_backend_swapped(api, simulator_name, device_name, devices) ==
    IF api = None THEN
        [steps |-> << Step("Aer.get_backend", <<simulator_name>>,
                           simulator_name \in AerBackends) >>,
         backend |-> AerBackend(simulator_name)]
    ELSE IF device_name /= None THEN
        LET real == backends(devices, FALSE)
        IN  [steps |-> << Step("provider.backends", <<FALSE>>, TRUE),
                          Step("least_busy", <<real>>, real /= {}) >>,
             backend |-> least_busy(real)]
    ELSE
        [steps |-> << Step("provider.get_backend", <<device_name>>,
                           \E d \in devices : d.name = device_name) >>,
         backend |-> get_backend(devices, device_name)]
select_backend(api, simulator_name, device_name, devices) ==
    IF api = None THEN
        [steps |-> << Step("Aer.get_backend", <<simulator_name>>,
                           simulator_name \in AerBackends) >>,
         backend |-> AerBackend(simulator_name)]
    ELSE IF device_name = None THEN
        LET real == backends(devices, FALSE)
        IN  [steps |-> << Step("provider.backends", <<FALSE>>, TRUE),
                          Step("least_busy", <<real>>, real /= {}) >>,
             backend |-> least_busy(real)]
    ELSE
        [steps |-> << Step("provider.get_backend", <<device_name>>,
                           \E d \in devices : d.name = device_name) >>,
         backend |-> get_backend(devices, device_name)]

\* line 51: execute(q_circuit, backend, shots=repetitions).result()
execute_steps_retry(q_circuit, backend, repetitions) ==
    << Step("execute", <<q_circuit, backend, repetitions>>, TRUE),
       Step("execute", <<q_circuit, backend, repetitions>>, TRUE),
       Step("result", <<>>, TRUE) >>
execute_steps(q_circuit, backend, repetitions) ==
    << Step("execute", <<q_circuit, backend, repetitions>>, TRUE),
       Step("result", <<>>, TRUE) >>

\* Result.get_counts(): the histogram of the measured bitstrings
get_counts(q_circuit, shots, rows) ==
    LET samples == Samples(rows, q_circuit.qubits, shots)
    IN  HistOf([i \in DOMAIN samples |-> Bits(samples[i])])

\* lines 53-56: the value returned for the selector
result_value_swapped(simulator_name, q_circuit, counts) ==
    IF simulator_name = DEFAULT_SIMULATOR THEN
        [steps |-> << Step("get_statevector", <<>>, TRUE) >>,
         value |-> Vector(q_circuit)]
    ELSE IF simulator_name = STATEVECTOR_SIMULATOR THEN
        [steps |-> << Step("get_counts", <<>>, TRUE) >>,
         value |-> Mapping(counts)]
    ELSE
        [steps |-> << >>, value |-> NoValue]
result_value_else_counts(simulator_name, q_circuit, counts) ==
    IF simulator_name = STATEVECTOR_SIMULATOR THEN
        [steps |-> << Step("get_statevector", <<>>, TRUE) >>,
         value |-> Vector(q_circuit)]
    ELSE
        [steps |-> << Step("get_counts", <<>>, TRUE) >>,
         value |-> Mapping(counts)]
result_value(simulator_name, q_circuit, counts) ==
    IF simulator_name = DEFAULT_SIMULATOR THEN
        [steps |-> << Step("get_counts", <<>>, TRUE) >>,
         value |-> Mapping(counts)]
    ELSE IF simulator_name = STATEVECTOR_SIMULATOR THEN
        [steps |-> << Step("get_statevector", <<>>, TRUE) >>,
         value |-> Vector(q_circuit)]
    ELSE
        [steps |-> << >>, value |-> NoValue]

on_qiskit(q_circuit, simulator_name, repetitions, api, device_name, hub, group, project, devices, rows) ==
    LET acct == account_steps(api, hub, group, project)
        sel == select_backend(api, simulator_name, device_name, devices)
        counts == get_counts(q_circuit, repetitions, rows)
        res == result_value(simulator_name, q_circuit, counts)
    IN  [steps |-> acct \o sel.steps
                     \o execute_steps(q_circuit, sel.backend, repetitions)
                     \o res.steps,
         value |-> res.value,
         delivered |-> IF simulator_name = DEFAULT_SIMULATOR THEN counts ELSE EmptyHist]

----------------------------------------------------------------------------
(* One adapter call *)

\* the calls at which the run may stop with an error: any call may raise,
\* and a call the library rejects does raise
FailPoints(steps) ==
    LET bad == {i \in DOMAIN steps : ~steps[i].ok}
    IN  IF bad = {} THEN 0..Len(steps)
        ELSE 1..(CHOOSE i \in bad : \A j \in bad : i <= j)

\* no adapter has a try/except: a raising call ends the adapter call
Performed(steps, fail) ==
    LET done == IF fail = 0 THEN steps ELSE SubSeq(steps, 1, fail)
    IN  [i \in DOMAIN done |-> [op |-> done[i].op, arg |-> done[i].arg]]

Returned(program, fail) ==
    IF fail = 0
    THEN [shape |-> program.value.shape, val |-> program.value.val,
          kind |-> "return", err |-> None]
    ELSE [shape |-> "none", val |-> None,
          kind |-> "raise", err |-> ErrorOf(program.steps[fail].op)]

\* IBMQ.save_account(token, overwrite=True): a save that does not raise
\* replaces the stored credential
Stored(old, steps, fail) ==
    LET saves == {i \in DOMAIN steps :
                    /\ steps[i].op = "IBMQ.save_account"
                    /\ (fail = 0 \/ i < fail)}
    IN  IF saves = {} THEN old
        ELSE steps[CHOOSE i \in saves : \A j \in saves : j <= i].arg[1]

Finish(args, program, fail) ==
    /\ call' = args
    /\ log' = Performed(program.steps, fail)
    /\ ret' = Returned(program, fail)
    /\ raw' = IF fail = 0 THEN program.delivered ELSE EmptyHist
    /\ before' = account
    /\ account' = Stored(account, program.steps, fail)
    /\ last_token' = IF args.adapter = "on_qiskit" /\ args.api /= None
                     THEN args.api ELSE last_token
    /\ last_saved' = IF /\ args.adapter = "on_qiskit"
                        /\ args.api /= None
                        /\ ret'.err /= ErrorOf("IBMQ.save_account")
                     THEN args.api ELSE last_saved

Args(adapter, q_circuit, simulator_name, repetitions, api, device_name, route, default_target, operations) ==
    [q_circuit |-> q_circuit, repetitions |-> repetitions,
     simulator_name |-> simulator_name, api |-> api,
     operations |-> operations, default_target |-> default_target,
     device_name |-> device_name, adapter |-> adapter, route |-> route]

\* what the engine measures in a run of n shots of w bits each
RowsOf(n, w) == [1..n -> [1..w -> BOOLEAN]]

\* the engine delivered no measurement
NoRows == << >>

\* the measurements matter only to a call in which no external call raises
Measured(n, w, fail) == IF fail = 0 THEN RowsOf(n, w) ELSE {NoRows}

NoCall ==
    Args("none", [qubits |-> 1, result_types |-> <<>>], None, 0,
         None, None, <<>>, None, <<>>)

NoResult == [shape |-> "none", val |-> None, kind |-> "init", err |-> None]

\* no adapter call is in progress or waiting to be taken by the caller
Idle == call.adapter = "none"

Init ==
    /\ account \in {None, "tokA", "tokB"}
    /\ before = account
    /\ call = NoCall
    /\ log = <<>>
    /\ ret = NoResult
    /\ raw = EmptyHist
    /\ last_token = None
    /\ last_saved = None

OnQiskit ==
    /\ Idle
    /\ \E q_circuit \in Circuits, simulator_name \in Selectors,
          repetitions \in 0..MaxReps, api \in {None} \cup Tokens,
          device_name \in DeviceNames, hgp \in Routes, devices \in Providers :
         LET outline == on_qiskit(q_circuit, simulator_name, repetitions,
                                  api, device_name, hgp[1], hgp[2], hgp[3],
                                  devices, NoRows)
         IN  \E fail \in FailPoints(outline.steps) :
               \E rows \in Measured(repetitions, q_circuit.qubits, fail) :
                 Finish(Args("on_qiskit", q_circuit, simulator_name,
                             repetitions, api, device_name, hgp, None, <<>>),
                        on_qiskit(q_circuit, simulator_name, repetitions,
                                  api, device_name, hgp[1], hgp[2], hgp[3],
                                  devices, rows),
                        fail)

OnCirq ==
    /\ Idle
    /\ \E q_circuit \in Circuits, simulator_name \in Selectors,
          repetitions \in 0..MaxReps, api \in {"tokA"},
          operations \in OperationLists :
         LET outline == on_cirq(q_circuit, simulator_name, repetitions, api,
                                operations, NoRows)
         IN  \E fail \in FailPoints(outline.steps) :
               \E rows \in Measured(repetitions, Width, fail) :
                 Finish(Args("on_cirq", q_circuit, simulator_name,
                             repetitions, api, None, <<>>, None, operations),
                        on_cirq(q_circuit, simulator_name, repetitions, api,
                                operations, rows),
                        fail)

OnIonq ==
    /\ Idle
    /\ \E q_circuit \in Circuits, repetitions \in 0..MaxReps,
          api \in {"tokA"}, default_target \in {"simulator", "qpu"},
          operations \in OperationLists :
         LET outline == on_ionq(q_circuit, repetitions, api, default_target,
                                operations, NoRows)
         IN  \E fail \in FailPoints(outline.steps) :
               \E rows \in Measured(repetitions, Width, fail) :
                 Finish(Args("on_ionq", q_circuit, None, repetitions, api,
                             None, <<>>, default_target, operations),
                        on_ionq(q_circuit, repetitions, api, default_target,
                                operations, rows),
                        fail)

OnBraket ==
    /\ Idle
    /\ \E q_circuit \in Circuits, simulator_name \in Selectors,
          repetitions \in 0..MaxReps, api \in {"tokA"} :
         LET outline == on_braket(q_circuit, simulator_name, repetitions,
                                  api, NoRows)
         IN  \E fail \in FailPoints(outline.steps) :
               \E rows \in Measured(repetitions, q_circuit.qubits, fail) :
                 Finish(Args("on_braket", q_circuit, simulator_name,
                             repetitions, api, None, <<>>, None, <<>>),
                        on_braket(q_circuit, simulator_name, repetitions,
                                  api, rows),
                        fail)

\* the adapter has returned or raised: its caller takes the outcome and goes on
CallerContinues ==
    /\ ~Idle
    /\ call' = NoCall
    /\ log' = <<>>
    /\ ret' = NoResult
    /\ raw' = EmptyHist
    /\ before' = account
    /\ UNCHANGED <<account, last_token, last_saved>>

Next == OnQiskit \/ OnCirq \/ OnIonq \/ OnBraket \/ CallerContinues

Spec == Init /\ [][Next]_vars

----------------------------------------------------------------------------
(* Reading the record of the most recent call *)

Positions(ops) == {i \in DOMAIN log : log[i].op \in ops}
Called(op) == Positions({op}) /= {}
Count(ops) == Cardinality(Positions(ops))

\* every call of an operation in `later` comes after a call of one in `earlier`
Precedes(earlier, later) ==
    \A j \in Positions(later) : \E i \in Positions(earlier) : i < j

IsCall(adapter) == call.adapter = adapter
Completed == ret.kind = "return"
Raised == ret.kind = "raise"

RECURSIVE SumOver(_, _)
SumOver(f, S) ==
    IF S = {} THEN 0
    ELSE LET k == CHOOSE x \in S : TRUE
         IN  f[k] + SumOver(f, S \ {k})

Total(h) == SumOver(h, DOMAIN h)

\* out is h with every key written backwards, each with its count
IsBitReversalOf(out, h) ==
    /\ Cardinality(DOMAIN out) = Cardinality(DOMAIN h)
    /\ \A r \in DOMAIN h :
          \E k \in DOMAIN out :
             /\ Len(k) = Len(r)
             /\ \A i \in 1..Len(r) : k[i] = r[Len(r) + 1 - i]
             /\ out[k] = h[r]

BackendChoices == {"Aer.get_backend", "least_busy", "provider.get_backend"}
Submissions == {"execute", "run", "simulate"}
MappingSources == {"get_counts", "measurement_counts", "result.histogram",
                   "result.multi_measurement_histogram"}
VectorSources == {"get_statevector", "final_state_vector", "values"}

----------------------------------------------------------------------------
(* C1: an on_qiskit call without a credential makes no account or network  *)
(* call (save_account, load_account, get_provider, least_busy) and leaves   *)
(* the stored account as it was, whatever the selector, device name and     *)
(* hub/group/project.                                                       *)
C1_NoAccountCallWithoutCredential ==
    (IsCall("on_qiskit") /\ call.api = None) =>
        /\ Count({"IBMQ.save_account", "IBMQ.load_account",
                  "IBMQ.get_provider", "provider.backends", "least_busy",
                  "provider.get_backend"}) = 0
        /\ account = before

C1_Witness ==
    /\ IsCall("on_qiskit") /\ call.api = None /\ Completed
    /\ call.device_name /= None /\ call.route[2] /= None
    /\ before = "tokA" /\ account = "tokA"

(* C2: on_qiskit chooses its backend by the rule: no token, the Aer         *)
(* simulator named by the selector; a token and no device name, the least   *)
(* busy non-simulator device of the provider; a token and a device name,    *)
(* the named device.  With a token the calls come in the order save         *)
(* account, load account, get provider, choose backend; the circuit is      *)
(* executed only after the backend is chosen, on that backend; no call      *)
(* chooses more than one backend and a call that executes chose one.        *)
C2_BackendSelection ==
    IsCall("on_qiskit") =>
        /\ Count(BackendChoices) <= 1
        /\ Called("execute") => Count(BackendChoices) = 1
        /\ Precedes(BackendChoices, {"execute"})
        /\ call.api = None =>
              /\ Count({"least_busy", "provider.get_backend"}) = 0
              /\ \A i \in Positions({"Aer.get_backend"}) :
                    log[i].arg = <<call.simulator_name>>
              /\ \A i \in Positions({"execute"}) :
                    /\ log[i].arg[2].provider = "Aer"
                    /\ log[i].arg[2].name = call.simulator_name
        /\ call.api /= None =>
              /\ Count({"Aer.get_backend"}) = 0
              /\ Precedes({"IBMQ.save_account"}, {"IBMQ.load_account"})
              /\ Precedes({"IBMQ.load_account"}, {"IBMQ.get_provider"})
              /\ Precedes({"IBMQ.get_provider"},
                          {"provider.backends", "least_busy",
                           "provider.get_backend"})
              /\ \A i \in Positions({"IBMQ.save_account"}) :
                    log[i].arg[1] = call.api
        /\ (call.api /= None /\ call.device_name = None) =>
              /\ Count({"provider.get_backend"}) = 0
              /\ \A i \in Positions({"provider.backends"}) :
                    log[i].arg = <<FALSE>>
              /\ \A i \in Positions({"execute"}) :
                    \E j \in Positions({"least_busy"}) :
                       /\ j < i
                       /\ log[i].arg[2] \in log[j].arg[1]
                       /\ ~log[i].arg[2].simulator
                       /\ \A d \in log[j].arg[1] :
                             /\ ~d.simulator
                             /\ log[i].arg[2].pending_jobs <= d.pending_jobs
        /\ (call.api /= None /\ call.device_name /= None) =>
              /\ Count({"provider.backends", "least_busy"}) = 0
              /\ \A i \in Positions({"provider.get_backend"}) :
                    log[i].arg = <<call.device_name>>
              /\ \A i \in Positions({"execute"}) :
                    /\ log[i].arg[2].provider = "IBMQ"
                    /\ log[i].arg[2].name = call.device_name

C2_Witness ==
    /\ IsCall("on_qiskit") /\ call.api = "tokA" /\ call.device_name = None
    /\ Completed
    /\ \E i \in Positions({"execute"}) : log[i].arg[2].name = "ibmq_b"

C6_UnrecognizedSelectorReturnsNone ==
    (IsCall("on_qiskit")
        /\ call.simulator_name \notin
             {DEFAULT_SIMULATOR, STATEVECTOR_SIMULATOR}) =>
        /\ Count({"get_counts", "get_statevector"}) = 0
        /\ Completed => ret.shape = "none" /\ ret.val = None
        /\ Raised => log /= <<>> /\ ret.err = ErrorOf(log[Len(log)].op)

C6_Witness ==
    /\ IsCall("on_qiskit") /\ call.simulator_name = OTHER_SIMULATOR
    /\ call.api = "tokA" /\ Completed /\ ret.shape = "none"
    /\ Called("execute")

(* C7: on_cirq with the default selector and on_ionq request the joint      *)
(* histogram, over exactly the measured-qubit indices derived from the      *)
(* operations, if and only if that list is not empty, and otherwise the     *)
(* single histogram keyed 'result'; no call makes more than one histogram   *)
(* request and a call that completes made one.                              *)
C7_JointOrSingleHistogram ==
    (IsCall("on_ionq")
        \/ (IsCall("on_cirq") /\ call.simulator_name = DEFAULT_SIMULATOR)) =>
        LET qubits_index == measure_qubits_index(call.operations)
        IN  /\ Count({"result.multi_measurement_histogram",
                      "result.histogram"}) <= 1
            /\ Completed =>
                  /\ Count({"result.multi_measurement_histogram",
                            "result.histogram"}) = 1
                  /\ Called("result.multi_measurement_histogram")
                        <=> Len(qubits_index) > 0
            /\ \A i \in Positions({"result.multi_measurement_histogram"}) :
                  /\ Len(qubits_index) > 0
                  /\ log[i].arg[1] = qubits_index
            /\ \A i \in Positions({"result.histogram"}) :
                  /\ Len(qubits_index) = 0
                  /\ log[i].arg[1] = "result"

C7_Witness ==
    /\ IsCall("on_ionq") /\ Completed
    /\ Called("result.multi_measurement_histogram")
    /\ Len(call.operations) = 2
    /\ measure_qubits_index(call.operations) = <<1>>

(* C8: no adapter catches, retries or transforms a failure: when an         *)
(* external call raises, the error handed to the caller is the error of the *)
(* last call made, no value is returned, and within one adapter call no     *)
(* external call is repeated and the circuit is submitted at most once.     *)
C8_FailuresPropagate ==
    ~IsCall("none") =>
        /\ Raised =>
              /\ log /= <<>>
              /\ ret.err = ErrorOf(log[Len(log)].op)
              /\ ret.shape = "none"
              /\ ret.val = None
        /\ Completed => ret.err = None
        /\ Count(Submissions) <= 1
        /\ \A i, j \in DOMAIN log : log[i].op = log[j].op => i = j

C8_Witness ==
    /\ IsCall("on_qiskit") /\ call.api = "tokA" /\ Raised
    /\ ret.err = ErrorOf("execute")
    /\ Count(Submissions) = 1 /\ ~Called("result")

C10_StoredIsLastToken ==
    last_token /= None => account = last_token

(* C10 as amended: the stored credential changes only in an on_qiskit call  *)
(* that carries a token; such a call overwrites it with its token as soon   *)
(* as save_account returns, even if the call fails later or the selector is *)
(* unrecognized; so the stored credential is the token of the most recent   *)
(* token-bearing on_qiskit call whose save_account did not raise, and       *)
(* on_cirq, on_ionq and on_braket leave it unchanged.                       *)
C10_StoredIsLastSavedToken ==
    /\ last_saved /= None => account = last_saved
    /\ account /= before =>
          IsCall("on_qiskit") /\ call.api /= None /\ account = call.api
    /\ (IsCall("on_qiskit") /\ call.api /= None
           /\ ret.err /= ErrorOf("IBMQ.save_account")) => account = call.api
    /\ (IsCall("on_qiskit") /\ call.api /= None
           /\ ret.err = ErrorOf("IBMQ.save_account")) => account = before

C10_Witness ==
    /\ IsCall("on_qiskit") /\ call.api = "tokB" /\ Raised
    /\ ret.err = ErrorOf("IBMQ.load_account")
    /\ before = "tokA" /\ account = "tokB" /\ last_saved = "tokB"

====
